---- MODULE Spec2Model ----
(***************************************************************************)
(* The opinion thread of the rollup validator                              *)
(* (packages/arb-validator/rollup/opinion.go): the reconciler loop of      *)
(* startOpinionUpdateThread with its closure updateCurrent, the build      *)
(* goroutines running prepareAssertion, the classifier getNodeOpinion and  *)
(* preparedAssertion.Clone.                                                *)
(*                                                                         *)
(* Hashes are modelled by injective names: a node's hash is its path from  *)
(* the root (the sequence of link types), an inbox top hash is the number  *)
(* of messages below it, the hash of a message slice is the slice.         *)
(* Machines are heap objects (heap: id -> state) because the code shares   *)
(* and mutates them through pointers.  Time bounds are left out: every     *)
(* replay of the model runs under the same bounds.                         *)
(***************************************************************************)
EXTENDS Integers, Sequences, FiniteSets, TLC

\* ------------------------------------------------------------------ bounds
MaxNodes == 2
MaxInbox == 1
MaxBuilds == 2
MachHalt == 3
\* chain.nodeGraph.params.MaxExecutionSteps
MaxExecutionSteps == 2

\* --------------------------------------------------------------- constants
\* capacity of assertionPreparedChan
ChanCap == 20

\* structures.ChildType: the four classifications, also the slot index
ValidChildType == 0
InvalidPendingChildType == 1
InvalidMessagesChildType == 2
InvalidExecutionChildType == 3
ChildTypes == 0 .. 3

\* zeroBytes32, the empty successor slot
ZeroHash == << -1 >>
\* the nil pointers
NoPA == [nil |-> "preparedAssertion"]
NoAssertion == [nil |-> "ExecutionAssertion"]
NoHeight == -1
NoMach == << >>
\* a slice hash no message range has
BadSliceHash == [slice |-> << 0 >>]
\* value.NewEmptyTuple().Hash()
EmptyTupleHash == [slice |-> << >>]

\* ----------------------------------------------------------------- machine
\* The machine is a counter machine: state p is its program position, odd
\* positions are inbox instructions, MachHalt is the halted state.
IsInboxInsn(p) == p % 2 = 1

\* machine.IsMachineBlocked: halted, or waiting at an inbox instruction for
\* messages that have not arrived
IsMachineBlocked(p, newMessages) ==
    \/ p >= MachHalt
    \/ IsInboxInsn(p) /\ ~newMessages

\* One run of the machine: at most maxSteps steps from position p with the
\* inbox value msgs.  An inbox instruction takes the whole inbox value and
\* blocks when it is empty.
RECURSIVE RunMachine(_, _, _, _, _, _)
RunMachine(p, left, msgs, steps, didInbox, taken) ==
    IF left = 0 \/ p >= MachHalt
    THEN [mach |-> p, stepsRun |-> steps, didInbox |-> didInbox, taken |-> taken]
    ELSE IF IsInboxInsn(p)
         THEN IF msgs = << >>
              THEN [mach |-> p, stepsRun |-> steps, didInbox |-> didInbox, taken |-> taken]
              ELSE RunMachine(p + 1, left - 1, << >>, steps + 1, TRUE, msgs)
         ELSE RunMachine(p + 1, left - 1, msgs, steps + 1, didInbox, taken)

\* Machine.ExecuteAssertion(maxSteps, timeBounds, messages): the machine
\* after the run (the call mutates the receiver), the assertion, stepsRun
ExecuteAssertion(p, maxSteps, msgs) ==
    LET r == RunMachine(p, maxSteps, msgs, 0, FALSE, << >>) IN
    [mach |-> r.mach,
     stepsRun |-> r.stepsRun,
     assertion |-> [AfterHash |-> r.mach, DidInboxInsn |-> r.didInbox,
                    NumGas |-> r.stepsRun, OutMsgs |-> r.taken]]

\* ExecutionAssertion.Stub(): the digest of an assertion
Stub(a) ==
    [AfterHash |-> a.AfterHash, DidInboxInsn |-> a.DidInboxInsn,
     NumGas |-> a.NumGas, LastMessageHash |-> Len(a.OutMsgs)]

\* -------------------------------------------------------------- classifier
getNodeOpinion_FlipOrder(params, claim, prevPendingCount, claimHeight, stackTopHash, messagesVal, prevMach) ==
    LET correctAfterPendingTopHeight == prevPendingCount + params.ImportedMessageCount
        run == ExecuteAssertion(prevMach, params.NumSteps, messagesVal)
    IN  IF stackTopHash # claim.ImportedMessagesSlice
        THEN [type |-> InvalidMessagesChildType, assertion |-> NoAssertion, mach |-> prevMach]
        ELSE IF claimHeight = NoHeight \/ correctAfterPendingTopHeight # claimHeight
        THEN [type |-> InvalidPendingChildType, assertion |-> NoAssertion, mach |-> prevMach]
        ELSE IF params.NumSteps # run.stepsRun \/ claim.AssertionStub # Stub(run.assertion)
        THEN [type |-> InvalidExecutionChildType, assertion |-> NoAssertion, mach |-> run.mach]
        ELSE [type |-> ValidChildType, assertion |-> run.assertion, mach |-> run.mach]

\* getNodeOpinion: the classification, the assertion returned with it, and
\* the state prevMach is left in (the replay runs on prevMach itself).
\* messageStack is used only through GetTopHash().
getNodeOpinion(params, claim, prevPendingCount, claimHeight, stackTopHash, messagesVal, prevMach) ==
    LET correctAfterPendingTopHeight == prevPendingCount + params.ImportedMessageCount
        run == ExecuteAssertion(prevMach, params.NumSteps, messagesVal)
    IN  IF claimHeight = NoHeight \/ correctAfterPendingTopHeight # claimHeight
        THEN [type |-> InvalidPendingChildType, assertion |-> NoAssertion, mach |-> prevMach]
        ELSE IF stackTopHash # claim.ImportedMessagesSlice
        THEN [type |-> InvalidMessagesChildType, assertion |-> NoAssertion, mach |-> prevMach]
        ELSE IF params.NumSteps # run.stepsRun \/ claim.AssertionStub # Stub(run.assertion)
        THEN [type |-> InvalidExecutionChildType, assertion |-> NoAssertion, mach |-> run.mach]
        ELSE [type |-> ValidChildType, assertion |-> run.assertion, mach |-> run.mach]

\* ------------------------------------------------------------ pending inbox
\* PendingInbox.GetTopHash
GetTopHash(inbox) == Len(inbox)

\* PendingInbox.GetHeight: the height of a hash, nil when the inbox has no
\* such hash
GetHeight(inbox, h) == IF h \in 0 .. Len(inbox) THEN h ELSE NoHeight

\* PendingInbox.Substack(from, to): the messages above from up to to; the
\* caller drops the error, and gets the empty stack with it
Substack(inbox, from, to) ==
    IF from \in 0 .. Len(inbox) /\ to \in 0 .. Len(inbox) /\ from <= to
    THEN SubSeq(inbox, from + 1, to)
    ELSE << >>

\* PendingInbox.ValueForSubseq(from, to): the same messages as a tuple value
ValueForSubseq(inbox, from, to) == Substack(inbox, from, to)

\* MessageStack.GetTopHash and MessageStack.TopCount
StackTopHash(stack) == [slice |-> stack]
TopCount(stack) == Len(stack)

\* ------------------------------------------------------------------- state
VARIABLES
    knownValidNode,         \* chain.knownValidNode, by hash
    nodeFromHash,           \* chain.nodeGraph.nodeFromHash
    leaves,                 \* chain.nodeGraph.leaves
    pendingInbox,           \* chain.pendingInbox
    heap,                   \* the machine objects: id -> state
    rheld,                  \* read locks of chain held, per task
    writer,                 \* the task holding the write lock of chain
    cancelled,              \* ctx is done
    loopPc,                 \* where the reconciler goroutine is
    uc,                     \* the locals of updateCurrent
    preparingAssertions,    \* the building set
    preparedAssertions,     \* the cache: leaf hash -> preparedAssertion
    assertionPreparedChan,  \* the result channel
    builds,                 \* the build goroutines
    notes,                  \* AdvancedKnownAssertion / AdvancedKnownValidNode calls, in order
    handed,                 \* the clones passed to AssertionPrepared
    opIn, opOut,            \* a call of getNodeOpinion: arguments, result
    cl                      \* a preparedAssertion, its clone and their objects

chainVars == << knownValidNode, nodeFromHash, leaves, pendingInbox, heap, rheld, writer, cancelled >>
loopVars == << loopPc, uc, preparingAssertions, preparedAssertions, assertionPreparedChan, builds, notes, handed >>
mainVars == << chainVars, loopVars >>
vars == << mainVars, opIn, opOut, cl >>

LoopTask == 0
Tasks == 0 .. MaxBuilds

RootHash == << >>
NoDisputable == [nil |-> "DisputableNode"]
NoUC == [nil |-> "updateCurrent"]
NoOpinion == [nil |-> "opinion"]
NoClone == [nil |-> "clone"]
IdleBuild == [pc |-> "idle"]

\* Node.PrevHash
PrevHash(h) == IF h = RootHash THEN ZeroHash ELSE SubSeq(h, 1, Len(h) - 1)

\* LeafSet.IsLeaf
IsLeaf(h) == h \in leaves

\* Machine.Clone: a new object in the state of the old one.  An object is
\* named after the statement that made it: the root's machine, the clone of
\* build b (line 195), the clone updateCurrent replays at node h (line 103),
\* the clone given to the invalid successor h (line 127).
RootMach == << "root" >>
BuildMach(b) == << "build", b >>
ReplayMach_Alias(h) == nodeFromHash[h].machine
ReplayMach(h) == << "replay", h >>
NodeMach(h) == << "node", h >>
Alloc(h, id, state) == [i \in DOMAIN h \cup {id} |-> IF i = id THEN state ELSE h[i]]

\* the machine objects something still points to
LiveIds ==
    {nodeFromHash[h].machine : h \in DOMAIN nodeFromHash}
    \cup {preparedAssertions[h].machine : h \in DOMAIN preparedAssertions}
    \cup {assertionPreparedChan[i].machine :
            i \in {j \in 1 .. Len(assertionPreparedChan) : assertionPreparedChan[j] # NoPA}}
    \cup {builds[b].mach : b \in {x \in 1 .. MaxBuilds : builds[x].pc = "exec"}}
    \cup (IF uc = NoUC THEN {} ELSE {uc.nextMachine})
    \cup (IF uc = NoUC THEN {} ELSE IF uc.prepped = NoPA THEN {} ELSE {uc.prepped.machine})
    \cup {pa.machine : pa \in handed}

\* the garbage collector: objects nothing points to are gone
Collect(h, live) == [i \in DOMAIN h \cap live |-> h[i]]

\* sync.RWMutex of chain
CanRLock == writer = "none"
CanLock == writer = "none" /\ \A t \in Tasks : rheld[t] = 0

\* A snapshot section: the read lock taken at its start (line 148, 152 or
\* 180) is released before the replay that follows (line 92, 105 or 197).
HeldForReplay(t) == rheld' = [rheld EXCEPT ![t] = @ + 1]
UnlockedForReplay(t) == rheld' = [rheld EXCEPT ![t] = (@ + 1) - 1]

\* the process runs until a goroutine panics
Alive == loopPc # "crashed"

\* ------------------------------------------------------- prepared assertion
\* prepareAssertion, after the replay: the params and the claim of the
\* candidate
PreparedParams(run, messageStack) ==
    IF run.assertion.DidInboxInsn
    THEN [NumSteps |-> run.stepsRun, ImportedMessageCount |-> TopCount(messageStack)]
    ELSE [NumSteps |-> run.stepsRun, ImportedMessageCount |-> 0]

PreparedClaim_NoImport(run, messageStack, beforePendingTop, afterPendingTop) ==
    [AfterPendingTop |-> beforePendingTop,
     ImportedMessagesSlice |-> EmptyTupleHash,
     AssertionStub |-> Stub(run.assertion)]

PreparedClaim(run, messageStack, beforePendingTop, afterPendingTop) ==
    IF run.assertion.DidInboxInsn
    THEN [AfterPendingTop |-> afterPendingTop,
          ImportedMessagesSlice |-> StackTopHash(messageStack),
          AssertionStub |-> Stub(run.assertion)]
    ELSE [AfterPendingTop |-> beforePendingTop,
          ImportedMessagesSlice |-> EmptyTupleHash,
          AssertionStub |-> Stub(run.assertion)]

\* preparedAssertion.Clone on the values of this model: the machine of the
\* copy is the machine object of the original
Clone(pa) ==
    [leafHash |-> pa.leafHash,
     prevPrevLeafHash |-> pa.prevPrevLeafHash,
     prevChildType |-> pa.prevChildType,
     beforeState |-> pa.beforeState,
     params |-> pa.params,
     claim |-> pa.claim,
     assertion |-> pa.assertion,
     machine |-> pa.machine]

\* ------------------------------------------------------------- environment
\* The chain's other callbacks: a posted assertion adds successor nodes, the
\* inbox grows, the context is cancelled.  They write under the write lock.
\* The reconciler reads the known-valid node and what lies below it only, so
\* successors are posted on the known-valid node and on its descendants.

\* what a claimant posts on node p: the assertion an honest validator would
\* build there, or one of its corruptions
ClaimKinds == {"honest", "badHeight", "badTop", "badMessages", "badExecution"}

HonestDisputable(p) ==
    LET before == p.vmProtoData
        top == GetTopHash(pendingInbox)
        stack == Substack(pendingInbox, before.PendingTop, top)
        run == ExecuteAssertion(before.MachineHash, MaxExecutionSteps,
                                ValueForSubseq(pendingInbox, before.PendingTop, top))
    IN  [params |-> PreparedParams(run, stack),
         claim |-> PreparedClaim(run, stack, before.PendingTop, top)]

PostedDisputable(p, kind) ==
    LET d == HonestDisputable(p) IN
    CASE kind = "honest" -> d
      [] kind = "badHeight" ->
            [d EXCEPT !.params.ImportedMessageCount = @ + 1]
      [] kind = "badTop" ->
            [d EXCEPT !.claim.AfterPendingTop = MaxInbox + 1]
      [] kind = "badMessages" ->
            [d EXCEPT !.claim.ImportedMessagesSlice = BadSliceHash]
      [] kind = "badExecution" ->
            [d EXCEPT !.claim.AssertionStub.AfterHash = @ + 1]

\* the classification the protocol gives an assertion of each kind
TrueChildType(kind) ==
    CASE kind = "honest" -> ValidChildType
      [] kind = "badHeight" -> InvalidPendingChildType
      [] kind = "badTop" -> InvalidPendingChildType
      [] kind = "badMessages" -> InvalidMessagesChildType
      [] kind = "badExecution" -> InvalidExecutionChildType

\* the protocol state of a new node: a valid successor starts where the
\* assertion ended, an invalid one where its predecessor stood
ChildProtoData(p, linkType, d) ==
    IF linkType = ValidChildType
    THEN [MachineHash |-> d.claim.AssertionStub.AfterHash,
          PendingTop |-> d.claim.AfterPendingTop,
          PendingCount |-> p.vmProtoData.PendingCount + d.params.ImportedMessageCount]
    ELSE p.vmProtoData

NewNode(h, linkType, protoData, d, kind) ==
    [hash |-> h, linkType |-> linkType, vmProtoData |-> protoData, disputable |-> d,
     posted |-> kind, machine |-> NoMach, assertion |-> NoAssertion,
     successorHashes |-> [t \in ChildTypes |-> ZeroHash]]

IsPrefix(a, b) == Len(a) <= Len(b) /\ SubSeq(b, 1, Len(a)) = a

\* A successor of node ph is posted: the node the asserter claims (the valid
\* slot) or the node of the assertion's true classification.  The
\* successors of a node share the assertion posted on it.
PostSuccessor(ph, linkType, kind) ==
    LET p == nodeFromHash[ph]
        h == Append(ph, linkType)
        posted == {t \in ChildTypes : p.successorHashes[t] # ZeroHash}
        sibling == nodeFromHash[p.successorHashes[CHOOSE t \in posted : TRUE]]
        d == IF posted = {} THEN PostedDisputable(p, kind) ELSE sibling.disputable
        n == NewNode(h, linkType, ChildProtoData(p, linkType, d), d, kind)
    IN  /\ Alive /\ CanLock
        /\ IsPrefix(knownValidNode, ph)
        /\ Cardinality(DOMAIN nodeFromHash) <= MaxNodes
        /\ p.successorHashes[linkType] = ZeroHash
        /\ linkType \in {ValidChildType, TrueChildType(kind)}
        /\ posted # {} => kind = sibling.posted
        /\ nodeFromHash' =
              [x \in DOMAIN nodeFromHash \cup {h} |->
                 IF x = h THEN n
                 ELSE IF x = ph THEN [p EXCEPT !.successorHashes[linkType] = h]
                 ELSE nodeFromHash[x]]
        /\ leaves' = (leaves \ {ph}) \cup {h}
        /\ UNCHANGED << knownValidNode, pendingInbox, heap, rheld, writer, cancelled >>
        /\ UNCHANGED << loopVars, opIn, opOut, cl >>

AppendMessage ==
    /\ Alive /\ CanLock
    /\ Len(pendingInbox) < MaxInbox
    /\ pendingInbox' = Append(pendingInbox, Len(pendingInbox) + 1)
    /\ UNCHANGED << knownValidNode, nodeFromHash, leaves, heap, rheld, writer, cancelled >>
    /\ UNCHANGED << loopVars, opIn, opOut, cl >>

Cancel ==
    /\ Alive /\ ~cancelled
    /\ cancelled' = TRUE
    /\ UNCHANGED << knownValidNode, nodeFromHash, leaves, pendingInbox, heap, rheld, writer >>
    /\ UNCHANGED << loopVars, opIn, opOut, cl >>

\* ----------------------------------------------------------- updateCurrent
\* lines 72-79: the node in the first successor slot that is not empty
FirstSuccessor(cur) ==
    LET posted == {t \in ChildTypes : cur.successorHashes[t] # ZeroHash} IN
    IF posted = {} THEN ZeroHash
    ELSE cur.successorHashes[CHOOSE t \in posted : \A o \in posted : t <= o]

CachedFor_AnyLeaf(cache, h) ==
    IF h \in DOMAIN cache THEN cache[h]
    ELSE IF DOMAIN cache # {} THEN cache[CHOOSE k \in DOMAIN cache : TRUE]
    ELSE NoPA

\* line 84: the cached candidate for the current node
CachedFor(cache, h) == IF h \in DOMAIN cache THEN cache[h] ELSE NoPA

FastPath_ParamsOnly(prepped, successor) ==
    /\ prepped # NoPA
    /\ prepped.params = successor.disputable.params

\* lines 86-88: the cached candidate is the assertion that was posted
FastPath(prepped, successor) ==
    /\ prepped # NoPA
    /\ prepped.params = successor.disputable.params
    /\ prepped.claim = successor.disputable.claim

\* The reconciler is at the top of a cycle: the ticker case of the select
\* (line 147) or the end of a catch-up round (line 152).  Both take the read
\* lock and test the catch-up condition of line 150.
AtCycle == loopPc \in {"select", "recheck"}

\* lines 148/152, 150, 69-105: the known-valid node has a successor;
\* updateCurrent snapshots it under the read lock, which it releases before
\* the replay (line 92 or 105)
UpdateCurrentBegin ==
    LET cur == nodeFromHash[knownValidNode]
        sh == FirstSuccessor(cur)
        prepped == CachedFor(preparedAssertions, cur.hash)
    IN
    /\ Alive /\ AtCycle /\ CanRLock
    /\ ~IsLeaf(knownValidNode)
    /\ IF sh \notin DOMAIN nodeFromHash
       THEN \* successor is nil: line 87 or 94 dereferences it
            /\ loopPc' = "crashed"
            /\ UNCHANGED << uc, heap >>
       ELSE LET successor == nodeFromHash[sh] IN
            IF FastPath(prepped, successor)
            THEN /\ uc' = [currentOpinion |-> cur.hash,
                           successorHashes |-> cur.successorHashes,
                           prepped |-> prepped,
                           fast |-> TRUE,
                           newOpinion |-> ValidChildType,
                           nextMachine |-> prepped.machine,
                           validExecution |-> prepped.assertion,
                           params |-> successor.disputable.params,
                           claim |-> successor.disputable.claim,
                           claimHeight |-> NoHeight,
                           messageStack |-> << >>,
                           messagesVal |-> << >>,
                           prevPendingCount |-> 0,
                           correctNode |-> ZeroHash]
                 /\ loopPc' = "uc_reset"
                 /\ heap' = heap
            ELSE LET claim == successor.disputable.claim
                     id == ReplayMach(cur.hash)
                 IN
                 /\ uc' = [currentOpinion |-> cur.hash,
                           successorHashes |-> cur.successorHashes,
                           prepped |-> NoPA,
                           fast |-> FALSE,
                           newOpinion |-> ValidChildType,
                           nextMachine |-> id,
                           validExecution |-> NoAssertion,
                           params |-> successor.disputable.params,
                           claim |-> claim,
                           claimHeight |-> GetHeight(pendingInbox, claim.AfterPendingTop),
                           messageStack |-> Substack(pendingInbox, cur.vmProtoData.PendingTop,
                                                     claim.AfterPendingTop),
                           messagesVal |-> ValueForSubseq(pendingInbox, cur.vmProtoData.PendingTop,
                                                          claim.AfterPendingTop),
                           prevPendingCount |-> cur.vmProtoData.PendingCount,
                           correctNode |-> ZeroHash]
                 /\ loopPc' = "uc_replay"
                 /\ heap' = Alloc(heap, id, heap[cur.machine])
    /\ UnlockedForReplay(LoopTask)
    /\ UNCHANGED << knownValidNode, nodeFromHash, leaves, pendingInbox, writer, cancelled >>
    /\ UNCHANGED << preparingAssertions, preparedAssertions, assertionPreparedChan, builds,
                    notes, handed, opIn, opOut, cl >>

\* line 107: the classification, replaying nextMachine with no lock held
UpdateCurrentClassify ==
    LET r == getNodeOpinion(uc.params, uc.claim, uc.prevPendingCount, uc.claimHeight,
                            StackTopHash(uc.messageStack), uc.messagesVal,
                            heap[uc.nextMachine])
    IN
    /\ Alive /\ loopPc = "uc_replay"
    /\ heap' = [heap EXCEPT ![uc.nextMachine] = r.mach]
    /\ uc' = [uc EXCEPT !.newOpinion = r.type, !.validExecution = r.assertion]
    /\ loopPc' = "uc_reset"
    /\ UNCHANGED << knownValidNode, nodeFromHash, leaves, pendingInbox, rheld, writer, cancelled >>
    /\ UNCHANGED << preparingAssertions, preparedAssertions, assertionPreparedChan, builds,
                    notes, handed, opIn, opOut, cl >>

CorrectNode_OfSuccessor(u) ==
    LET first == FirstSuccessor(nodeFromHash[u.currentOpinion]) IN
    IF first \in DOMAIN nodeFromHash
    THEN nodeFromHash[first].successorHashes[u.newOpinion]
    ELSE ZeroHash

CorrectNode_FirstPosted(u) == FirstSuccessor(nodeFromHash[u.currentOpinion])

\* line 114: the hash in the slot of the classification, among the slots
\* copied from the current node at line 71
CorrectNode(u) == u.successorHashes[u.newOpinion]

NotifiedNode_Stale == uc.currentOpinion

\* line 133: the hash passed to AdvancedKnownValidNode
NotifiedNode == nodeFromHash[knownValidNode].hash

\* lines 110-121 and 137: both maps are reset, the successor is looked up
\* under the read lock, a valid one is announced; with no such node
\* updateCurrent returns
UpdateCurrentResolve ==
    LET correct == CorrectNode(uc)
        ok == correct \in DOMAIN nodeFromHash
    IN
    /\ Alive /\ loopPc = "uc_reset" /\ CanRLock
    /\ preparingAssertions' = {}
    /\ preparedAssertions' = << >>
    /\ IF ok
       THEN /\ uc' = [uc EXCEPT !.correctNode = correct]
            /\ notes' = IF uc.newOpinion = ValidChildType
                        THEN Append(notes, [kind |-> "AdvancedKnownAssertion",
                                            node |-> correct,
                                            assertion |-> uc.validExecution,
                                            knownValidNode |-> knownValidNode])
                        ELSE notes
            /\ loopPc' = "uc_lock"
       ELSE /\ uc' = NoUC
            /\ notes' = notes
            /\ loopPc' = "recheck"
    /\ rheld' = [rheld EXCEPT ![LoopTask] = (@ + 1) - 1]
    /\ UNCHANGED << knownValidNode, nodeFromHash, leaves, pendingInbox, writer, cancelled >>
    /\ UNCHANGED << assertionPreparedChan, builds, handed, opIn, opOut, cl >>
    /\ heap' = Collect(heap, LiveIds')

\* line 122: chain.Lock()
UpdateCurrentLock ==
    /\ Alive /\ loopPc = "uc_lock" /\ CanLock
    /\ writer' = "loop"
    /\ loopPc' = "uc_swap"
    /\ UNCHANGED << knownValidNode, nodeFromHash, leaves, pendingInbox, heap, rheld, cancelled >>
    /\ UNCHANGED << uc, preparingAssertions, preparedAssertions, assertionPreparedChan, builds,
                    notes, handed, opIn, opOut, cl >>

\* lines 123-130: the successor gets its machine and assertion, the pointer
\* moves, the write lock is released
UpdateCurrentSwap ==
    LET correct == uc.correctNode
        id == NodeMach(correct)
    IN
    /\ Alive /\ loopPc = "uc_swap"
    /\ IF uc.newOpinion = ValidChildType
       THEN /\ nodeFromHash' = [nodeFromHash EXCEPT ![correct].machine = uc.nextMachine,
                                                    ![correct].assertion = uc.validExecution]
            /\ heap' = heap
       ELSE /\ nodeFromHash' = [nodeFromHash EXCEPT ![correct].machine = id]
            /\ heap' = Alloc(heap, id, heap[nodeFromHash[knownValidNode].machine])
    /\ knownValidNode' = correct
    /\ writer' = "none"
    /\ loopPc' = "uc_notify"
    /\ UNCHANGED << leaves, pendingInbox, rheld, cancelled >>
    /\ UNCHANGED << uc, preparingAssertions, preparedAssertions, assertionPreparedChan, builds,
                    notes, handed, opIn, opOut, cl >>

\* lines 131-137: the new known-valid node is announced under the read lock
UpdateCurrentNotify ==
    /\ Alive /\ loopPc = "uc_notify" /\ CanRLock
    /\ notes' = Append(notes, [kind |-> "AdvancedKnownValidNode",
                               node |-> NotifiedNode,
                               assertion |-> NoAssertion,
                               knownValidNode |-> knownValidNode])
    /\ uc' = NoUC
    /\ loopPc' = "recheck"
    /\ rheld' = [rheld EXCEPT ![LoopTask] = (@ + 1) - 1]
    /\ UNCHANGED << knownValidNode, nodeFromHash, leaves, pendingInbox, writer, cancelled >>
    /\ UNCHANGED << preparingAssertions, preparedAssertions, assertionPreparedChan, builds,
                    handed, opIn, opOut, cl >>
    /\ heap' = Collect(heap, LiveIds')

\* ------------------------------------------------------- the reconciler loop
\* lines 148/152, 150, 155-172: the known-valid node is a leaf; a build is
\* started for it unless one was, or the machine is blocked; once a build
\* was started the cached candidate, if any, is passed to the observers
FreeBuilds == {b \in 1 .. MaxBuilds : builds[b].pc = "idle"}

PreparedToHand_Any(cache, h) == {Clone(cache[k]) : k \in DOMAIN cache}

\* lines 165-169: the clone of the candidate cached for the known-valid
\* node, if there is one
PreparedToHand(cache, h) == IF h \in DOMAIN cache THEN {Clone(cache[h])} ELSE {}

PrepareNext ==
    LET cur == nodeFromHash[knownValidNode]
        isPreparing == cur.hash \in preparingAssertions
        newMessages == cur.vmProtoData.PendingTop # GetTopHash(pendingInbox)
        start == ~isPreparing /\ ~IsMachineBlocked(heap[cur.machine], newMessages)
        b == CHOOSE x \in FreeBuilds : \A y \in FreeBuilds : x <= y
    IN
    /\ Alive /\ AtCycle /\ CanRLock
    /\ IsLeaf(knownValidNode)
    /\ start => FreeBuilds # {}
    /\ preparingAssertions' = IF start THEN preparingAssertions \cup {cur.hash}
                              ELSE preparingAssertions
    /\ builds' = IF start THEN [builds EXCEPT ![b] = [pc |-> "spawned"]] ELSE builds
    /\ handed' = IF isPreparing /\ IsLeaf(knownValidNode)
                 THEN handed \cup PreparedToHand(preparedAssertions, cur.hash)
                 ELSE handed
    /\ loopPc' = "select"
    /\ rheld' = [rheld EXCEPT ![LoopTask] = (@ + 1) - 1]
    /\ UNCHANGED << knownValidNode, nodeFromHash, leaves, pendingInbox, heap, writer, cancelled >>
    /\ UNCHANGED << uc, preparedAssertions, assertionPreparedChan, notes, opIn, opOut, cl >>

\* lines 143-144: the context is done; the break leaves the select
LoopCtxDone ==
    /\ Alive /\ loopPc = "select" /\ cancelled
    /\ loopPc' = "break"
    /\ UNCHANGED << chainVars, uc, preparingAssertions, preparedAssertions,
                    assertionPreparedChan, builds, notes, handed, opIn, opOut, cl >>

\* line 141: after the break the for statement goes around again
LoopBreak ==
    /\ Alive /\ loopPc = "break"
    /\ loopPc' = "select"
    /\ UNCHANGED << chainVars, uc, preparingAssertions, preparedAssertions,
                    assertionPreparedChan, builds, notes, handed, opIn, opOut, cl >>

\* lines 145-146: a build result arrives and is stored under its leaf hash;
\* reading the leaf hash of a nil result panics
LoopRecv ==
    LET prepped == Head(assertionPreparedChan) IN
    /\ Alive /\ loopPc = "select"
    /\ assertionPreparedChan # << >>
    /\ assertionPreparedChan' = Tail(assertionPreparedChan)
    /\ IF prepped = NoPA
       THEN /\ loopPc' = "crashed"
            /\ preparedAssertions' = preparedAssertions
       ELSE /\ loopPc' = "select"
            /\ preparedAssertions' =
                  [h \in DOMAIN preparedAssertions \cup {prepped.leafHash} |->
                     IF h = prepped.leafHash THEN prepped ELSE preparedAssertions[h]]
    /\ UNCHANGED << knownValidNode, nodeFromHash, leaves, pendingInbox, rheld, writer, cancelled >>
    /\ UNCHANGED << uc, preparingAssertions, builds, notes, handed, opIn, opOut, cl >>
    /\ heap' = Collect(heap, LiveIds')

\* ------------------------------------------------------- the build goroutines
\* prepareAssertion, lines 180-197: the snapshot under the read lock.  When
\* the node is no leaf the function returns nil with the read lock still
\* held, and the goroutine sends the nil (line 161).
BuildSnapshot(b) ==
    LET cur == nodeFromHash[knownValidNode]
        beforeState == cur.vmProtoData
        afterPendingTop == GetTopHash(pendingInbox)
        id == BuildMach(b)
    IN
    /\ Alive /\ builds[b].pc = "spawned" /\ CanRLock
    /\ IF ~IsLeaf(cur.hash)
       THEN /\ Len(assertionPreparedChan) < ChanCap
            /\ assertionPreparedChan' = Append(assertionPreparedChan, NoPA)
            /\ builds' = [builds EXCEPT ![b] = [pc |-> "done"]]
            /\ rheld' = [rheld EXCEPT ![b] = @ + 1]
            /\ heap' = heap
       ELSE /\ builds' = [builds EXCEPT ![b] =
                  [pc |-> "exec",
                   leafHash |-> cur.hash,
                   prevPrevLeafHash |-> PrevHash(cur.hash),
                   prevChildType |-> cur.linkType,
                   beforeState |-> beforeState,
                   afterPendingTop |-> afterPendingTop,
                   messageStack |-> Substack(pendingInbox, beforeState.PendingTop, afterPendingTop),
                   messagesVal |-> ValueForSubseq(pendingInbox, beforeState.PendingTop,
                                                  afterPendingTop),
                   mach |-> id]]
            /\ heap' = Alloc(heap, id, heap[cur.machine])
            /\ UnlockedForReplay(b)
            /\ assertionPreparedChan' = assertionPreparedChan
    /\ UNCHANGED << knownValidNode, nodeFromHash, leaves, pendingInbox, writer, cancelled >>
    /\ UNCHANGED << loopPc, uc, preparingAssertions, preparedAssertions, notes, handed,
                    opIn, opOut, cl >>

\* prepareAssertion, lines 199-238, and the send of line 161: the replay of
\* the cloned machine with no lock held, the candidate, its delivery
BuildExecute(b) ==
    LET l == builds[b]
        run == ExecuteAssertion(heap[l.mach], MaxExecutionSteps, l.messagesVal)
        pa == [leafHash |-> l.leafHash,
               prevPrevLeafHash |-> l.prevPrevLeafHash,
               prevChildType |-> l.prevChildType,
               beforeState |-> l.beforeState,
               params |-> PreparedParams(run, l.messageStack),
               claim |-> PreparedClaim(run, l.messageStack, l.beforeState.PendingTop,
                                       l.afterPendingTop),
               assertion |-> run.assertion,
               machine |-> l.mach]
    IN
    /\ Alive /\ l.pc = "exec"
    /\ Len(assertionPreparedChan) < ChanCap
    /\ heap' = [heap EXCEPT ![l.mach] = run.mach]
    /\ assertionPreparedChan' = Append(assertionPreparedChan, pa)
    /\ builds' = [builds EXCEPT ![b] = [pc |-> "done"]]
    /\ UNCHANGED << knownValidNode, nodeFromHash, leaves, pendingInbox, rheld, writer, cancelled >>
    /\ UNCHANGED << loopPc, uc, preparingAssertions, preparedAssertions, notes, handed,
                    opIn, opOut, cl >>

\* ----------------------------------------------------------- specification
RootNode ==
    [hash |-> RootHash, linkType |-> ValidChildType,
     vmProtoData |-> [MachineHash |-> 0, PendingTop |-> 0, PendingCount |-> 0],
     disputable |-> NoDisputable, posted |-> "honest",
     machine |-> RootMach, assertion |-> NoAssertion,
     successorHashes |-> [t \in ChildTypes |-> ZeroHash]]

OtherInit ==
    /\ opIn = NoOpinion
    /\ opOut = NoOpinion
    /\ cl = NoClone

MainInit ==
    /\ knownValidNode = RootHash
    /\ nodeFromHash = [h \in {RootHash} |-> RootNode]
    /\ leaves = {RootHash}
    /\ pendingInbox = << >>
    /\ heap = [i \in {RootMach} |-> 0]
    /\ rheld = [t \in Tasks |-> 0]
    /\ writer = "none"
    /\ cancelled = FALSE
    /\ loopPc = "select"
    /\ uc = NoUC
    /\ preparingAssertions = {}
    /\ preparedAssertions = << >>
    /\ assertionPreparedChan = << >>
    /\ builds = [b \in 1 .. MaxBuilds |-> IdleBuild]
    /\ notes = << >>
    /\ handed = {}

Init == MainInit /\ OtherInit

Environment ==
    \/ \E ph \in DOMAIN nodeFromHash, t \in ChildTypes, k \in ClaimKinds :
            PostSuccessor(ph, t, k)
    \/ AppendMessage
    \/ Cancel

Reconciler ==
    \/ UpdateCurrentBegin
    \/ UpdateCurrentClassify
    \/ UpdateCurrentResolve
    \/ UpdateCurrentLock
    \/ UpdateCurrentSwap
    \/ UpdateCurrentNotify
    \/ PrepareNext
    \/ LoopCtxDone
    \/ LoopBreak
    \/ LoopRecv

Builders == \E b \in 1 .. MaxBuilds : BuildSnapshot(b) \/ BuildExecute(b)

Next == Environment \/ Reconciler \/ Builders

Spec == Init /\ [][Next]_vars

\* ------------------------------------------------------------------ claims
RECURSIVE Depth(_)
Depth(h) == IF h = RootHash THEN 0 ELSE 1 + Depth(PrevHash(h))

\* the nodes the pointer was on and has been announced for
Announced ==
    {RootHash} \cup {notes[i].node : i \in {j \in 1 .. Len(notes) :
                                              notes[j].kind = "AdvancedKnownValidNode"}}

\* C1: every change of knownValidNode moves it to a node in one of the four
\* successor slots of the node it was on, one level deeper, and never to a
\* node it was on before.
C1_DirectSuccessor ==
    [][knownValidNode' # knownValidNode =>
          /\ knownValidNode' # ZeroHash
          /\ \E t \in ChildTypes :
                nodeFromHash[knownValidNode].successorHashes[t] = knownValidNode'
          /\ Depth(knownValidNode') = Depth(knownValidNode) + 1
          /\ knownValidNode' \notin Announced]_vars

\* the pointer has moved twice
C1_Witness == Depth(knownValidNode) = 2 /\ loopPc = "uc_notify"

\* the builds whose result carries leaf hash h: replaying, or delivered and
\* not yet received
OutstandingFor(h) ==
    Cardinality({b \in 1 .. MaxBuilds : builds[b].pc = "exec" /\ builds[b].leafHash = h})
    + Cardinality({i \in 1 .. Len(assertionPreparedChan) :
                      /\ assertionPreparedChan[i] # NoPA
                      /\ assertionPreparedChan[i].leafHash = h})

\* C2: for every leaf hash at most one build is outstanding.
C2_OneBuildPerLeaf == \A h \in DOMAIN nodeFromHash : OutstandingFor(h) <= 1

\* the pointer has moved past node h
Superseded(h) == h # knownValidNode /\ IsPrefix(h, knownValidNode)

\* C4: a result for a leaf the pointer has moved past is not in the cache
\* and was not passed to an observer while superseded.  (The cache is empty
\* at every move of the pointer, so an entry for a superseded leaf arrived
\* after the move.)
C4_StaleResultDiscarded ==
    \A h \in DOMAIN preparedAssertions : ~Superseded(h)

\* C5: a cached candidate adopted on the fast path for the transition out of
\* node N was built from N: its leaf hash is N's, its before-state is N's
\* protocol state, and its assertion, step count and machine are those of
\* replaying N's machine.
C5_FastPathFromCurrent ==
    (uc # NoUC /\ uc.fast) =>
        LET pa == uc.prepped
            n == nodeFromHash[uc.currentOpinion]
            run == ExecuteAssertion(heap[n.machine], MaxExecutionSteps,
                       ValueForSubseq(pendingInbox, pa.beforeState.PendingTop,
                                      pa.claim.AfterPendingTop))
        IN  /\ pa.leafHash = n.hash
            /\ pa.beforeState = n.vmProtoData
            /\ pa.assertion = run.assertion
            /\ pa.params.NumSteps = run.stepsRun
            /\ heap[pa.machine] = run.mach

\* the fast path is taken at a node the pointer has moved to
C5_Witness == uc # NoUC /\ uc.fast /\ Depth(uc.currentOpinion) >= 1

\* C6: a task that is replaying a machine holds no lock of the chain, and
\* the write lock is held only for the assignment and the swap.
C6_NoLockAcrossReplay ==
    /\ loopPc = "uc_replay" => rheld[LoopTask] = 0 /\ writer = "none"
    /\ \A b \in 1 .. MaxBuilds : builds[b].pc = "exec" => rheld[b] = 0 /\ writer # "build"
    /\ writer # "none" => writer = "loop" /\ loopPc = "uc_swap"

\* the reconciler and a build replay at the same time
C6_Witness == loopPc = "uc_replay" /\ \E b \in 1 .. MaxBuilds : builds[b].pc = "exec"

\* C7: the reconciler receives an absent result, drops it and goes on: the
\* cache is unchanged and the loop is back at its select.
C7_NilResultDiscarded ==
    [][(/\ loopPc = "select"
        /\ assertionPreparedChan # << >>
        /\ Head(assertionPreparedChan) = NoPA
        /\ assertionPreparedChan' = Tail(assertionPreparedChan))
       => (loopPc' = "select" /\ preparedAssertions' = preparedAssertions)]_vars

\* C8: once the loop has seen the context done it leaves for good: its next
\* step is the exit, never another round of the select.
C8_ExitsOnCancel ==
    [][(loopPc = "break" /\ loopPc' # "break") => loopPc' = "exited"]_vars

\* C10 as claimed: every notification of a transition is dispatched with
\* knownValidNode already on the new node.
C10_NotifiedAfterSwap ==
    \A i \in 1 .. Len(notes) : notes[i].knownValidNode = notes[i].node

\* C10: AdvancedKnownValidNode is dispatched with knownValidNode on the new
\* node, AdvancedKnownAssertion with knownValidNode still on its predecessor,
\* and the notifications follow the order of the transitions: never one for
\* a node above the node of an earlier one, and for one node the assertion
\* first.
C10_NotificationOrder ==
    /\ \A i \in 1 .. Len(notes) :
          IF notes[i].kind = "AdvancedKnownValidNode"
          THEN notes[i].knownValidNode = notes[i].node
          ELSE notes[i].knownValidNode = PrevHash(notes[i].node)
    /\ \A i, j \in 1 .. Len(notes) :
          i < j =>
            /\ Depth(notes[i].node) <= Depth(notes[j].node)
            /\ notes[i].node = notes[j].node =>
                  /\ notes[i].kind = "AdvancedKnownAssertion"
                  /\ notes[j].kind = "AdvancedKnownValidNode"

\* two transitions have been announced, the second a valid one
C10_Witness ==
    /\ Len(notes) >= 3
    /\ notes[Len(notes)].kind = "AdvancedKnownValidNode"
    /\ notes[Len(notes) - 1].kind = "AdvancedKnownAssertion"
    /\ Depth(notes[Len(notes)].node) = 2

\* the nodes that are or have been the known-valid node: the pointer moves
\* from a node to one of its successors only
HasBeenKnownValid(h) == IsPrefix(h, knownValidNode)

\* C11: a node other than the root has a machine exactly when it is or has
\* been the known-valid node, and an assertion exactly then too, whatever
\* the outcome it was adopted with.
C11_PopulatedIffKnownValid ==
    \A h \in DOMAIN nodeFromHash \ {RootHash} :
        /\ nodeFromHash[h].machine # NoMach <=> HasBeenKnownValid(h)
        /\ nodeFromHash[h].assertion # NoAssertion <=> HasBeenKnownValid(h)

\* C13: a build that delivers a candidate delivers one whose step count is
\* that of its replay and whose stub is that of its assertion; after an
\* inbox instruction it imports the messages of the snapshot up to the inbox
\* top read there, otherwise it imports nothing and stays at the leaf's
\* pending top with the hash of the empty tuple.
C13_PreparedFields ==
    [][\A b \in 1 .. MaxBuilds :
          (builds[b].pc = "exec" /\ builds'[b].pc = "done") =>
             LET l == builds[b]
                 run == ExecuteAssertion(heap[l.mach], MaxExecutionSteps, l.messagesVal)
                 pa == assertionPreparedChan'[Len(assertionPreparedChan')]
             IN  /\ pa # NoPA
                 /\ pa.leafHash = l.leafHash
                 /\ pa.assertion = run.assertion
                 /\ pa.params.NumSteps = run.stepsRun
                 /\ pa.claim.AssertionStub = Stub(pa.assertion)
                 /\ heap'[pa.machine] = run.mach
                 /\ IF pa.assertion.DidInboxInsn
                    THEN /\ pa.params.ImportedMessageCount = Len(l.messageStack)
                         /\ pa.claim.AfterPendingTop = l.afterPendingTop
                         /\ pa.claim.ImportedMessagesSlice = [slice |-> l.messageStack]
                    ELSE /\ pa.params.ImportedMessageCount = 0
                         /\ pa.claim.AfterPendingTop = l.beforeState.PendingTop
                         /\ pa.claim.ImportedMessagesSlice = [slice |-> << >>]]_vars

\* a delivered candidate that imports a message
C13_Witness ==
    \E i \in 1 .. Len(assertionPreparedChan) :
        /\ assertionPreparedChan[i] # NoPA
        /\ assertionPreparedChan[i].assertion.DidInboxInsn
        /\ assertionPreparedChan[i].params.ImportedMessageCount = 1

\* C14: a run of updateCurrent that resolves no successor ends the cycle:
\* the loop is back at its select, waiting.
C14_CatchUpStops ==
    [][(loopPc = "uc_reset" /\ loopPc' # "uc_reset" /\ loopPc' # "uc_lock")
          => loopPc' = "select"]_vars

\* C15: the pointer moves only in the swap of updateCurrent, to the hash
\* that the slot of the computed outcome held in the copy of the slots taken
\* when updateCurrent started; the node it moves to hangs in the slot of
\* that outcome, which is the classification of the assertion posted there.
C15_SlotOfOutcome ==
    [][knownValidNode' # knownValidNode =>
          /\ loopPc = "uc_swap"
          /\ uc.currentOpinion = knownValidNode
          /\ knownValidNode' = uc.successorHashes[uc.newOpinion]
          /\ nodeFromHash[knownValidNode'].linkType = uc.newOpinion
          /\ knownValidNode' = Append(knownValidNode, uc.newOpinion)
          /\ uc.newOpinion = TrueChildType(nodeFromHash[knownValidNode'].posted)]_vars

\* the pointer has moved into an invalid-pending slot
C15_Witness ==
    /\ loopPc = "uc_notify"
    /\ knownValidNode # RootHash
    /\ nodeFromHash[knownValidNode].linkType = InvalidPendingChildType

\* C16: when the fast path has adopted a cached candidate, getNodeOpinion on
\* the posted params and claim, from the state of the known-valid machine
\* and the inbox, returns Valid with an assertion of the adopted stub and
\* leaves its machine in the state of the adopted machine.
C16_FastPathAgrees ==
    (uc # NoUC /\ uc.fast) =>
        LET n == nodeFromHash[uc.currentOpinion]
            d == nodeFromHash[FirstSuccessor(n)].disputable
            from == n.vmProtoData.PendingTop
            to == d.claim.AfterPendingTop
            r == getNodeOpinion(d.params, d.claim, n.vmProtoData.PendingCount,
                                GetHeight(pendingInbox, to),
                                StackTopHash(Substack(pendingInbox, from, to)),
                                ValueForSubseq(pendingInbox, from, to),
                                heap[n.machine])
        IN  /\ r.type = ValidChildType
            /\ uc.newOpinion = ValidChildType
            /\ Stub(r.assertion) = Stub(uc.validExecution)
            /\ r.mach = heap[uc.nextMachine]

\* the fast path adopts a candidate that imports a message
C16_Witness == uc # NoUC /\ uc.fast /\ uc.validExecution.DidInboxInsn

\* C17: every candidate passed to AssertionPrepared is the clone of the
\* cached candidate of the known-valid node, carries that node's hash, and
\* the node is a leaf then.
C17_HandedForCurrentLeaf ==
    [][\A pa \in handed' \ handed :
          /\ pa.leafHash = knownValidNode
          /\ IsLeaf(knownValidNode)
          /\ knownValidNode \in DOMAIN preparedAssertions
          /\ pa = Clone(preparedAssertions[knownValidNode])]_vars

\* a candidate was handed out for a leaf the pointer has moved to
C17_Witness == \E pa \in handed : pa.leafHash = knownValidNode /\ Depth(knownValidNode) >= 1

\* the candidates a speculative holder has: the cache and the observers
Speculative ==
    {preparedAssertions[h] : h \in DOMAIN preparedAssertions} \cup handed

\* C18: no node's machine is the machine object of a candidate that is in
\* the cache or was handed to an observer.
C18_NoSharedMachine ==
    \A h \in DOMAIN nodeFromHash : \A pa \in Speculative :
        nodeFromHash[h].machine # pa.machine

\* C19: in a transition with an invalid outcome the new node gets a machine
\* object of its own, not the one that was replayed, in the state of the
\* previous node's machine, and that state is the one the previous node had
\* before the classification: its protocol state's machine hash.
C19_InvalidKeepsMachine ==
    [][(knownValidNode' # knownValidNode /\ uc.newOpinion # ValidChildType) =>
          LET old == nodeFromHash[knownValidNode].machine
              new == nodeFromHash'[knownValidNode'].machine
          IN  /\ new # old
              /\ new # uc.nextMachine
              /\ heap'[new] = heap[old]
              /\ heap'[old] = heap[old]
              /\ heap[old] = nodeFromHash[knownValidNode].vmProtoData.MachineHash]_vars

\* the pointer has moved into the invalid-execution slot, after a replay
C19_Witness ==
    /\ loopPc = "uc_notify"
    /\ knownValidNode # RootHash
    /\ nodeFromHash[knownValidNode].linkType = InvalidExecutionChildType
    /\ heap[uc.nextMachine] # heap[nodeFromHash[knownValidNode].machine]

\* C20: between the steps of the tasks no read lock of the chain is held:
\* every section that takes one has released it.
C20_ReadLocksReleased == \A t \in Tasks : rheld[t] = 0

\* ------------------------------------------------- getNodeOpinion on its own
\* The arguments of a call: every combination of the counts, heights, slice
\* hashes, message values and machine states of the model, with a stub that
\* is the stub of the replay, the stub of a longer replay or neither.
OpinionStubs(mach, numSteps, messagesVal) ==
    LET exact == Stub(ExecuteAssertion(mach, numSteps, messagesVal).assertion)
        full == Stub(ExecuteAssertion(mach, MaxExecutionSteps, messagesVal).assertion)
    IN  {exact, full, [exact EXCEPT !.AfterHash = @ + 1]}

SliceHashes == {EmptyTupleHash, StackTopHash(<< 1 >>), BadSliceHash}
MessageValues == {<< >>, << 1 >>}

OpinionInputs ==
    {[params |-> [NumSteps |-> n, ImportedMessageCount |-> c],
      claim |-> [AfterPendingTop |-> 0, ImportedMessagesSlice |-> sl, AssertionStub |-> st],
      prevPendingCount |-> pc, claimHeight |-> ch,
      stackTopHash |-> th, messagesVal |-> mv, prevMach |-> m] :
        n \in 0 .. MaxExecutionSteps, c \in 0 .. MaxInbox, sl \in SliceHashes,
        pc \in 0 .. MaxInbox, ch \in {NoHeight} \cup (0 .. (MaxInbox + 1)),
        th \in SliceHashes \ {BadSliceHash}, mv \in MessageValues, m \in 0 .. MachHalt,
        st \in UNION {OpinionStubs(m2, n2, mv2) :
                        m2 \in 0 .. MachHalt, n2 \in 0 .. MaxExecutionSteps,
                        mv2 \in MessageValues}}

OpinionInit ==
    /\ MainInit
    /\ opIn \in OpinionInputs
    /\ opOut = NoOpinion
    /\ cl = NoClone

OpinionCall ==
    /\ opOut = NoOpinion
    /\ opOut' = getNodeOpinion(opIn.params, opIn.claim, opIn.prevPendingCount, opIn.claimHeight,
                               opIn.stackTopHash, opIn.messagesVal, opIn.prevMach)
    /\ UNCHANGED << mainVars, opIn, cl >>

\* a second call with the same arguments: prevMach is the machine object
\* the first call was given, in the state that call left it in
OpinionCallAgain ==
    /\ opOut # NoOpinion
    /\ "again" \notin DOMAIN opOut
    /\ opOut' = [again |-> getNodeOpinion(opIn.params, opIn.claim, opIn.prevPendingCount,
                                          opIn.claimHeight, opIn.stackTopHash,
                                          opIn.messagesVal, opOut.mach)] @@ opOut
    /\ UNCHANGED << mainVars, opIn, cl >>

OpinionNext ==
    \/ OpinionCall
    \/ OpinionCallAgain

SpecOpinion == OpinionInit /\ [][OpinionNext]_vars

\* the checks of the reference decision procedure on the arguments of the call
OpinionHeightOk ==
    /\ opIn.claimHeight # NoHeight
    /\ opIn.prevPendingCount + opIn.params.ImportedMessageCount = opIn.claimHeight
OpinionMessagesOk == opIn.stackTopHash = opIn.claim.ImportedMessagesSlice
OpinionReplay == ExecuteAssertion(opIn.prevMach, opIn.params.NumSteps, opIn.messagesVal)
OpinionStepsOk == OpinionReplay.stepsRun = opIn.params.NumSteps
OpinionStubOk == Stub(OpinionReplay.assertion) = opIn.claim.AssertionStub

\* C3: getNodeOpinion returns the result of the reference decision
\* procedure: InvalidPending with no assertion when the height is absent or
\* wrong; otherwise InvalidMessages with no assertion when the slice hash is
\* wrong; otherwise InvalidExecution with no assertion when the steps or the
\* stub differ; otherwise Valid with the replayed assertion, whose stub is
\* the claimed one.
C3_ReferenceOpinion ==
    opOut # NoOpinion =>
        /\ ~OpinionHeightOk =>
              opOut.type = InvalidPendingChildType /\ opOut.assertion = NoAssertion
        /\ OpinionHeightOk /\ ~OpinionMessagesOk =>
              opOut.type = InvalidMessagesChildType /\ opOut.assertion = NoAssertion
        /\ OpinionHeightOk /\ OpinionMessagesOk /\ ~OpinionStepsOk =>
              opOut.type = InvalidExecutionChildType /\ opOut.assertion = NoAssertion
        /\ OpinionHeightOk /\ OpinionMessagesOk /\ ~OpinionStubOk =>
              opOut.type = InvalidExecutionChildType /\ opOut.assertion = NoAssertion
        /\ OpinionHeightOk /\ OpinionMessagesOk /\ OpinionStepsOk /\ OpinionStubOk =>
              /\ opOut.type = ValidChildType
              /\ opOut.assertion = OpinionReplay.assertion
              /\ Stub(opOut.assertion) = opIn.claim.AssertionStub

\* a call in which all three checks fail, answered with the first
C3_Witness ==
    /\ opOut # NoOpinion
    /\ ~OpinionHeightOk /\ ~OpinionMessagesOk /\ ~OpinionStepsOk /\ ~OpinionStubOk
    /\ opOut.type = InvalidPendingChildType

\* C12: a call leaves the machine it was given in the state it had, and a
\* second call with the same arguments and the same machine returns the
\* same classification and assertion.
C12_Pure ==
    /\ opOut # NoOpinion => opOut.mach = opIn.prevMach
    /\ (opOut # NoOpinion /\ "again" \in DOMAIN opOut) =>
          /\ opOut.again.type = opOut.type
          /\ opOut.again.assertion = opOut.assertion

\* --------------------------------------------- preparedAssertion.Clone on its own
\* A preparedAssertion as the struct it is: the fields that are pointers
\* name an object, objs holds the value each object has.  A holder of the
\* struct mutates what a pointer field points at.
PointerFields == {"prevDeadline", "beforeState", "params", "claim", "assertion", "machine"}
ObjectValues == {0, 1}
OrigObject(f) == << "orig", f >>
CopyObject(f) == << "copy", f >>

OrigStruct ==
    [leafHash |-> RootHash, prevPrevLeafHash |-> ZeroHash, prevDataHash |-> ZeroHash,
     prevChildType |-> ValidChildType,
     prevDeadline |-> OrigObject("prevDeadline"),
     beforeState |-> OrigObject("beforeState"),
     params |-> OrigObject("params"),
     claim |-> OrigObject("claim"),
     assertion |-> OrigObject("assertion"),
     machine |-> OrigObject("machine")]

\* preparedAssertion.Clone: the struct of the copy.  prevDeadline, beforeState,
\* params and claim are new objects, assertion and machine are the pointers
\* of the original.
CloneStruct(pa) ==
    [leafHash |-> pa.leafHash,
     prevPrevLeafHash |-> pa.prevPrevLeafHash,
     prevDataHash |-> pa.prevDataHash,
     prevChildType |-> pa.prevChildType,
     prevDeadline |-> CopyObject("prevDeadline"),
     beforeState |-> CopyObject("beforeState"),
     params |-> CopyObject("params"),
     claim |-> CopyObject("claim"),
     assertion |-> pa.assertion,
     machine |-> pa.machine]

\* the objects after Clone: each new object has the value of the one it copies
CloneObjects(pa, objs) ==
    LET new == CloneStruct(pa)
        made == {new[f] : f \in PointerFields} \ DOMAIN objs
    IN  [o \in DOMAIN objs \cup made |->
            IF o \in DOMAIN objs THEN objs[o]
            ELSE objs[pa[CHOOSE f \in PointerFields : new[f] = o]]]

\* what a holder of struct pa sees through its pointer fields
View(pa, objs) == [f \in PointerFields |-> objs[pa[f]]]

CloneInit ==
    /\ MainInit
    /\ opIn = NoOpinion
    /\ opOut = NoOpinion
    /\ \E objs \in [{OrigObject(f) : f \in PointerFields} -> ObjectValues] :
          cl = [objs |-> objs, orig |-> OrigStruct, copy |-> NoPA,
                seen |-> [orig |-> View(OrigStruct, objs), copy |-> NoPA]]

CloneCall ==
    /\ cl.copy = NoPA
    /\ LET objs == CloneObjects(cl.orig, cl.objs)
           copy == CloneStruct(cl.orig)
       IN  cl' = [cl EXCEPT !.objs = objs, !.copy = copy,
                            !.seen = [orig |-> View(cl.orig, cl.objs),
                                      copy |-> View(cl.orig, cl.objs)]]
    /\ UNCHANGED << mainVars, opIn, opOut >>

\* the holder of the original or of the copy writes v into the object of
\* field f; seen is what each holder has read or written itself
CloneMutate(side, f, v) ==
    /\ cl.copy # NoPA
    /\ cl' = [cl EXCEPT !.objs[cl[side][f]] = v, !.seen[side][f] = v]
    /\ UNCHANGED << mainVars, opIn, opOut >>

CloneNext ==
    \/ CloneCall
    \/ \E side \in {"orig", "copy"}, f \in PointerFields, v \in ObjectValues :
          CloneMutate(side, f, v)

SpecClone == CloneInit /\ [][CloneNext]_vars

\* C9: after Clone, what a holder sees through each pointer field of the
\* original is what it saw at the clone or wrote itself since, whatever was
\* written through the copy; and the same for the copy.
C9_CloneIndependent ==
    cl.copy # NoPA =>
        /\ View(cl.orig, cl.objs) = cl.seen.orig
        /\ View(cl.copy, cl.objs) = cl.seen.copy

====
